---- MODULE Spec2Model ----
(***************************************************************************)
(* Hexe: the segmented board (MultiBoard), castling and the Position       *)
(* legality query, modelled from hexe_core and hexe.                      *)
(*                                                                         *)
(* A Bitboard is a u64 in which bit i stands for square i.  It is modelled *)
(* as the set of the squares whose bit is set: & is intersection, | is     *)
(* union, ^ is symmetric difference and ! is the complement within the 64  *)
(* squares.  No operation of the board carries between bits, so the set    *)
(* view loses nothing of the 64-bit word.                                  *)
(***************************************************************************)
EXTENDS Integers, FiniteSets, Sequences, TLC

VARIABLES
    board,  \* the MultiBoard under test
    last,   \* the most recent call: its name, and its arguments where a later step is related to them
    prev,   \* the board as it was before the most recent castle
    pos,    \* the Position under test
    ret     \* what the most recent query returned

vars == <<board, last, prev, pos, ret>>

----------------------------------------------------------------------------
(* Squares, files and ranks: hexe_core/src/square *)

RANK_SHIFT == 3

Pow2(n) == 2 ^ n

Squares == 0 .. 63

\* A faulty Square::new that shifts the file instead of the rank.
Square_new_file_major(file, rank) == file * Pow2(RANK_SHIFT) + rank

\* Square::new: (rank << RANK_SHIFT) | file, file and rank in 0..7
Square_new(file, rank) == rank * Pow2(RANK_SHIFT) + file

\* Square::file: self & FILE_BITS
Square_file(s) == s % 8

\* Square::rank: self >> RANK_SHIFT
Square_rank(s) == s \div Pow2(RANK_SHIFT)

A1 == Square_new(0, 0)
B1 == Square_new(1, 0)
C1 == Square_new(2, 0)
D1 == Square_new(3, 0)
E1 == Square_new(4, 0)
F1 == Square_new(5, 0)
G1 == Square_new(6, 0)
H1 == Square_new(7, 0)
D2 == Square_new(3, 1)
F3 == Square_new(5, 2)
E4 == Square_new(4, 3)
F6 == Square_new(5, 5)
D7 == Square_new(3, 6)
A8 == Square_new(0, 7)
B8 == Square_new(1, 7)
C8 == Square_new(2, 7)
D8 == Square_new(3, 7)
E8 == Square_new(4, 7)
F8 == Square_new(5, 7)
G8 == Square_new(6, 7)
H8 == Square_new(7, 7)

----------------------------------------------------------------------------
(* Bitboard operators on the set view *)

BitAnd(a, b) == a \cap b

BitOr(a, b) == a \cup b

BitXor(a, b) == (a \ b) \cup (b \ a)

BitNot(a) == Squares \ a

----------------------------------------------------------------------------
(* Colors, piece kinds and pieces: color.rs, piece.rs *)

White == 0
Black == 1
Colors == {White, Black}

Pawn == 0
Knight == 1
Bishop == 2
Rook == 3
Queen == 4
King == 5
NUM_PIECES == 6
NUM_COLORS == 2
PieceKinds == 0 .. (NUM_PIECES - 1)

\* enum Piece: WhitePawn = 0, BlackPawn = 1, ..., BlackKing = 11
Pieces == 0 .. (NUM_PIECES * NUM_COLORS - 1)

\* Piece::new: (kind << 1) | color
Piece_new(kind, color) == kind * 2 + color

\* Piece::kind: self >> 1
Piece_kind(p) == p \div 2

\* Piece::color: self & 1
Piece_color(p) == p % 2

----------------------------------------------------------------------------
(* MultiBoard: hexe_core/src/board/multi_board/mod.rs *)

RankSquares(r) == {s \in Squares : Square_rank(s) = r}

\* 0x00FF00000000FF00
PAWN == RankSquares(1) \cup RankSquares(6)
KNIGHT == {B1, B8, G1, G8}
BISHOP == {C1, C8, F1, F8}
ROOK == {A1, A8, H1, H8}
QUEEN == {D1, D8}
KING == {E1, E8}
\* 0x000000000000FFFF
WHITE == RankSquares(0) \cup RankSquares(1)
\* 0xFFFF000000000000
BLACK == RankSquares(6) \cup RankSquares(7)

\* A faulty STANDARD whose queen and king boards are exchanged.
STANDARD_swapped ==
    [pieces |-> [k \in PieceKinds |->
                    CASE k = Pawn -> PAWN
                      [] k = Knight -> KNIGHT
                      [] k = Bishop -> BISHOP
                      [] k = Rook -> ROOK
                      [] k = Queen -> KING
                      [] OTHER -> QUEEN],
     colors |-> [c \in Colors |-> IF c = White THEN WHITE ELSE BLACK]]

\* pieces: [u64; NUM_PIECES] indexed by PieceKind, colors: [u64; NUM_COLORS] by Color
STANDARD ==
    [pieces |-> [k \in PieceKinds |->
                    CASE k = Pawn -> PAWN
                      [] k = Knight -> KNIGHT
                      [] k = Bishop -> BISHOP
                      [] k = Rook -> ROOK
                      [] k = Queen -> QUEEN
                      [] OTHER -> KING],
     colors |-> [c \in Colors |-> IF c = White THEN WHITE ELSE BLACK]]

\* impl Default for MultiBoard: mem::zeroed()
MultiBoard_default ==
    [pieces |-> [k \in PieceKinds |-> {}], colors |-> [c \in Colors |-> {}]]

\* all_bits: colors[0] | colors[1]
all_bits(b) == BitOr(b.colors[0], b.colors[1])

\* The three implementors of trait Index
ColorVal(c) == [t |-> "Color", v |-> c]
KindVal(k) == [t |-> "PieceKind", v |-> k]
PieceVal(p) == [t |-> "Piece", v |-> p]
IndexValues ==
    {ColorVal(c) : c \in Colors} \cup {KindVal(k) : k \in PieceKinds}
        \cup {PieceVal(p) : p \in Pieces}

\* A faulty Index::bitboard that joins (|) the color board and the kind board
\* of a Piece where the code intersects them (&).
bitboard_union(b, value) ==
    CASE value.t = "Color" -> b.colors[value.v]
      [] value.t = "PieceKind" -> b.pieces[value.v]
      [] OTHER -> BitOr(b.colors[Piece_color(value.v)], b.pieces[Piece_kind(value.v)])

\* Index::bitboard: board[color], board[kind], or color & kind for a Piece
bitboard(b, value) ==
    CASE value.t = "Color" -> b.colors[value.v]
      [] value.t = "PieceKind" -> b.pieces[value.v]
      [] OTHER -> BitAnd(b.colors[Piece_color(value.v)], b.pieces[Piece_kind(value.v)])

\* len: self.all_bits().len(), the number of bits set
len(b) == Cardinality(all_bits(b))

\* count: self.bitboard(value).len()
count(b, value) == Cardinality(bitboard(b, value))

\* contains: self.bitboard(value).contains(bits)
contains(b, bits, value) == bits \subseteq bitboard(b, value)

\* remove_all: every one of the eight boards &= !bits
remove_all(b, bits) ==
    LET value == BitNot(bits) IN
    [pieces |-> [k \in PieceKinds |-> BitAnd(b.pieces[k], value)],
     colors |-> [c \in Colors |-> BitAnd(b.colors[c], value)]]

\* A faulty insert_unchecked that writes the kind board only.
insert_unchecked_kind_only(b, bits, piece) ==
    [pieces |-> [b.pieces EXCEPT ![Piece_kind(piece)] = BitOr(@, bits)],
     colors |-> b.colors]

\* insert_unchecked: self[piece.color()] |= value; self[piece.kind()] |= value
insert_unchecked(b, bits, piece) ==
    [pieces |-> [b.pieces EXCEPT ![Piece_kind(piece)] = BitOr(@, bits)],
     colors |-> [b.colors EXCEPT ![Piece_color(piece)] = BitOr(@, bits)]]

\* A faulty insert that leaves out remove_all.
insert_blind(b, bits, piece) == insert_unchecked(b, bits, piece)

\* insert: remove_all(value); insert_unchecked(value, piece)
insert(b, bits, piece) == insert_unchecked(remove_all(b, bits), bits, piece)

\* <Color as Index>::remove_unchecked: board[self] &= !bits; every kind board &= !bits
Color_remove_unchecked(b, color, bits) ==
    LET value == BitNot(bits) IN
    [pieces |-> [k \in PieceKinds |-> BitAnd(b.pieces[k], value)],
     colors |-> [b.colors EXCEPT ![color] = BitAnd(@, value)]]

\* <Color as Index>::remove: remove_unchecked(board[self] & bits)
Color_remove(b, color, bits) ==
    Color_remove_unchecked(b, color, BitAnd(b.colors[color], bits))

\* A faulty <Piece as Index>::remove_unchecked that clears the color board only.
Piece_remove_unchecked_color_only(b, piece, bits) ==
    [pieces |-> b.pieces,
     colors |-> [b.colors EXCEPT ![Piece_color(piece)] = BitAnd(@, BitNot(bits))]]

\* <Piece as Index>::remove_unchecked: board[color] &= !bits; board[kind] &= !bits
Piece_remove_unchecked(b, piece, bits) ==
    LET value == BitNot(bits) IN
    [pieces |-> [b.pieces EXCEPT ![Piece_kind(piece)] = BitAnd(@, value)],
     colors |-> [b.colors EXCEPT ![Piece_color(piece)] = BitAnd(@, value)]]

\* <Piece as Index>::remove: value = board[color] | board[kind];
\* remove_unchecked(value & bits)
Piece_remove(b, piece, bits) ==
    LET value == BitOr(b.colors[Piece_color(piece)], b.pieces[Piece_kind(piece)]) IN
    Piece_remove_unchecked(b, piece, BitAnd(value, bits))

\* <PieceKind as Index>::remove_unchecked: board[self] &= !bits; every color board &= !bits
PieceKind_remove_unchecked(b, kind, bits) ==
    LET value == BitNot(bits) IN
    [pieces |-> [b.pieces EXCEPT ![kind] = BitAnd(@, value)],
     colors |-> [c \in Colors |-> BitAnd(b.colors[c], value)]]

\* <PieceKind as Index>::remove: remove_unchecked(board[self] & bits)
PieceKind_remove(b, kind, bits) ==
    PieceKind_remove_unchecked(b, kind, BitAnd(b.pieces[kind], bits))

\* MultiBoard::remove: value.remove(bits, self)
remove(b, bits, value) ==
    CASE value.t = "Color" -> Color_remove(b, value.v, bits)
      [] value.t = "PieceKind" -> PieceKind_remove(b, value.v, bits)
      [] OTHER -> Piece_remove(b, value.v, bits)

----------------------------------------------------------------------------
(* Castling rights and MultiBoard::castle: castle.rs, multi_board/mod.rs *)

WhiteKingside == 0
WhiteQueenside == 1
BlackKingside == 2
BlackQueenside == 3
CastleRightValues == {WhiteKingside, WhiteQueenside, BlackKingside, BlackQueenside}

\* CastleRight::color: self >> 1
CastleRight_color(right) == right \div 2

\* CastleRight::side: 1 & self (King = 0, Queen = 1)
CastleRight_side(right) == right % 2

\* A faulty MASKS whose white kingside rook mask names G1 in place of F1.
MASKS_wrong_rook(right) ==
    CASE right = WhiteKingside -> <<{E1, G1}, {H1, G1}>>
      [] right = WhiteQueenside -> <<{E1, C1}, {A1, D1}>>
      [] right = BlackKingside -> <<{E8, G8}, {H8, F8}>>
      [] OTHER -> <<{E8, C8}, {A8, D8}>>

\* static MASKS: [(u64, u64); 4], the (King, Rook) squares of each right
MASKS(right) ==
    CASE right = WhiteKingside -> <<{E1, G1}, {H1, F1}>>
      [] right = WhiteQueenside -> <<{E1, C1}, {A1, D1}>>
      [] right = BlackKingside -> <<{E8, G8}, {H8, F8}>>
      [] OTHER -> <<{E8, C8}, {A8, D8}>>

\* A faulty castle that sets the squares of the color board (|=) where the
\* code flips them (^=).
castle_or(b, right) ==
    LET king == MASKS(right)[1]
        rook == MASKS(right)[2]
    IN  [pieces |-> [b.pieces EXCEPT ![King] = BitXor(@, king),
                                     ![Rook] = BitXor(@, rook)],
         colors |-> [b.colors EXCEPT ![CastleRight_color(right)] =
                                        BitOr(@, BitOr(king, rook))]]

\* castle: self[right.color()] ^= king | rook; self[King] ^= king; self[Rook] ^= rook
castle(b, right) ==
    LET king == MASKS(right)[1]
        rook == MASKS(right)[2]
    IN  [pieces |-> [b.pieces EXCEPT ![King] = BitXor(@, king),
                                     ![Rook] = BitXor(@, rook)],
         colors |-> [b.colors EXCEPT ![CastleRight_color(right)] =
                                        BitXor(@, BitOr(king, rook))]]

\* The squares of a u64 below 2^31, and the bits of a u8: bit i is set.
BitsOf(n) == {i \in 0 .. 30 : (n \div Pow2(i)) % 2 = 1}

\* mod path: WHITE_KINGSIDE = 0x60, WHITE_QUEENSIDE = 0x0E, and the black
\* paths are the white ones << 56
path_WHITE_KINGSIDE == BitsOf(96)

path_BLACK_KINGSIDE == {s + 56 : s \in path_WHITE_KINGSIDE} \cap Squares

path_WHITE_QUEENSIDE == BitsOf(14)

path_BLACK_QUEENSIDE == {s + 56 : s \in path_WHITE_QUEENSIDE} \cap Squares

\* A faulty path::ALL that lists the paths in the order of their declarations.
path_ALL_misordered ==
    <<path_WHITE_KINGSIDE, path_BLACK_KINGSIDE, path_WHITE_QUEENSIDE, path_BLACK_QUEENSIDE>>

\* path::ALL
path_ALL ==
    <<path_WHITE_KINGSIDE, path_WHITE_QUEENSIDE, path_BLACK_KINGSIDE, path_BLACK_QUEENSIDE>>

\* CastleRight::path: path::ALL[self as usize]
path(right) == path_ALL[right + 1]

\* enum CastleSide
CastleSide_King == 0
CastleSide_Queen == 1
CastleSides == {CastleSide_King, CastleSide_Queen}

\* A faulty CastleRight::new that packs (side << 1) | color.
CastleRight_new_swapped(color, side) == side * 2 + color

\* CastleRight::new: (color << 1) | side; the shifted color has bit 0 clear,
\* so the | adds the side.
CastleRight_new(color, side) == color * 2 + side

\* impl From<CastleRight> for char: b"KQkq"[right as usize]
char_from(right) == <<"K", "Q", "k", "q">>[right + 1]

\* An Option: Some(v) or None.
Some(v) == [some |-> TRUE, v |-> v]

None == [some |-> FALSE]

\* CastleRight::from_char
CastleRight_from_char(ch) ==
    CASE ch = "K" -> Some(WhiteKingside)
      [] ch = "Q" -> Some(WhiteQueenside)
      [] ch = "k" -> Some(BlackKingside)
      [] ch = "q" -> Some(BlackQueenside)
      [] OTHER -> None

\* A CastleRights is a u8, modelled as the set of the bits that are set.
ALL_BITS == 15
MAX_LEN == 1 + ALL_BITS

\* impl_bit_set! { CastleRights ALL_BITS => CastleRight }: FULL and EMPTY
CastleRights_FULL == BitsOf(ALL_BITS)

CastleRights_EMPTY == {}

\* CastleRights(0b0001), (0b0010), (0b0100), (0b1000)
WHITE_KINGSIDE == BitsOf(1)
WHITE_QUEENSIDE == BitsOf(2)
BLACK_KINGSIDE == BitsOf(4)
BLACK_QUEENSIDE == BitsOf(8)

\* A faulty From<u8> that keeps every bit of the byte.
CastleRights_from_u8_unmasked(inner) == BitsOf(inner)

\* impl From<u8>: Self::FULL & CastleRights(inner)
CastleRights_from_u8(inner) == BitAnd(CastleRights_FULL, BitsOf(inner))

\* impl From<Color>
CastleRights_from_color(color) ==
    IF color = White
    THEN BitOr(WHITE_KINGSIDE, WHITE_QUEENSIDE)
    ELSE BitOr(BLACK_KINGSIDE, BLACK_QUEENSIDE)

\* impl From<CastleRight>: CastleRights(1 << right as usize)
CastleRights_from_right(right) == BitsOf(Pow2(right))

\* self.0 as usize, the index extract and extract_mut read the table with
CastleRights_extract(rights) ==
    LET sum[i \in 0 .. 8] ==
            IF i = 0 THEN 0
            ELSE sum[i - 1] + (IF (i - 1) \in rights THEN Pow2(i - 1) ELSE 0)
    IN  sum[8]

\* The result of from_str: Ok(rights) or Err(FromStrError(())).
Ok(rights) == [ok |-> TRUE, rights |-> rights]

Err == [ok |-> FALSE]

\* A faulty from_str that reads the letters without regard to their case.
RECURSIVE from_str_loop_caseless(_, _, _)
from_str_loop_caseless(bytes, i, result) ==
    IF i > Len(bytes) THEN Ok(result)
    ELSE CASE bytes[i] \in {"K", "k"} ->
                from_str_loop_caseless(bytes, i + 1, BitOr(result, WHITE_KINGSIDE))
           [] bytes[i] \in {"Q", "q"} ->
                from_str_loop_caseless(bytes, i + 1, BitOr(result, WHITE_QUEENSIDE))
           [] OTHER -> Err

from_str_caseless(s) ==
    IF Len(s) = 1 /\ s[1] = "-"
    THEN Ok(CastleRights_EMPTY)
    ELSE from_str_loop_caseless(s, 1, CastleRights_EMPTY)

\* The loop of from_str: result |= the right of each byte, or an early
\* return of Err at a byte that is none of K, k, Q, q.
RECURSIVE from_str_loop(_, _, _)
from_str_loop(bytes, i, result) ==
    IF i > Len(bytes) THEN Ok(result)
    ELSE CASE bytes[i] = "K" -> from_str_loop(bytes, i + 1, BitOr(result, WHITE_KINGSIDE))
           [] bytes[i] = "k" -> from_str_loop(bytes, i + 1, BitOr(result, BLACK_KINGSIDE))
           [] bytes[i] = "Q" -> from_str_loop(bytes, i + 1, BitOr(result, WHITE_QUEENSIDE))
           [] bytes[i] = "q" -> from_str_loop(bytes, i + 1, BitOr(result, BLACK_QUEENSIDE))
           [] OTHER -> Err

\* impl FromStr for CastleRights; a string is the sequence of its bytes.
from_str(s) ==
    IF Len(s) = 1 /\ s[1] = "-"
    THEN Ok(CastleRights_EMPTY)
    ELSE from_str_loop(s, 1, CastleRights_EMPTY)

\* for right in *self: the rights of the set from the lowest bit up.
RECURSIVE CastleRights_iter(_)
CastleRights_iter(rights) ==
    IF rights = {} THEN <<>>
    ELSE LET right == CHOOSE r \in rights : \A t \in rights : r <= t
         IN  <<right>> \o CastleRights_iter(rights \ {right})

\* A faulty map_str that writes the rights from the highest bit down.
map_str_reversed(rights) ==
    IF rights = CastleRights_EMPTY
    THEN <<"-">>
    ELSE LET rs == CastleRights_iter(rights)
         IN  [idx \in 1 .. Len(rs) |-> char_from(rs[Len(rs) + 1 - idx])]

\* map_str: "-" for the empty set, else buf[idx] = char::from(right) for
\* each right of the set; the string handed to f.
map_str(rights) ==
    IF rights = CastleRights_EMPTY
    THEN <<"-">>
    ELSE LET rs == CastleRights_iter(rights)
         IN  [idx \in 1 .. Len(rs) |-> char_from(rs[idx])]

\* split_mut hands out the eight bitboards for writing; one write flips the
\* bit of square s in board i (0..5 the kinds, 6..7 the colors, as in repr(C)).
split_mut_flip(b, i, s) ==
    IF i < NUM_PIECES
    THEN [b EXCEPT !.pieces[i] = BitXor(@, {s})]
    ELSE [b EXCEPT !.colors[i - NUM_PIECES] = BitXor(@, {s})]

----------------------------------------------------------------------------
(* The record of the most recent call *)

NoArg == NUM_PIECES * NUM_COLORS

\* pair: the call and the call before it are the two calls an algebraic law of
\* the board relates (castle(r) after castle(r), remove(bits, P) after
\* insert(bits, P)).
Call(op, bits, arg, pair) == [op |-> op, bits |-> bits, arg |-> arg, pair |-> pair]

NoCall == Call("init", {}, NoArg, FALSE)

\* What a square holds in a board: its kind boards and its color boards.
KindsAt(b, s) == {k \in PieceKinds : s \in b.pieces[k]}

ColorsAt(b, s) == {c \in Colors : s \in b.colors[c]}

Vacant(b, s) == KindsAt(b, s) = {} /\ ColorsAt(b, s) = {}

SameAt(b1, b2, s) ==
    KindsAt(b1, s) = KindsAt(b2, s) /\ ColorsAt(b1, s) = ColorsAt(b2, s)

OnePiecePerSquare(b) ==
    \A s \in Squares :
        Cardinality(KindsAt(b, s)) <= 1 /\ Cardinality(ColorsAt(b, s)) <= 1

----------------------------------------------------------------------------
(* Attacks: the attack tables of the coordinate system and                 *)
(* MultiBoard::is_attacked, which position/mod.rs calls                    *)

OnBoard(f, r) == f \in 0 .. 7 /\ r \in 0 .. 7

\* The squares one step of (df, dr) away from s, for each step of deltas.
Steps(s, deltas) ==
    {Square_new(Square_file(s) + d[1], Square_rank(s) + d[2]) :
        d \in {e \in deltas : OnBoard(Square_file(s) + e[1], Square_rank(s) + e[2])}}

KnightDeltas ==
    {<<1, 2>>, <<2, 1>>, <<2, -1>>, <<1, -2>>, <<-1, -2>>, <<-2, -1>>, <<-2, 1>>, <<-1, 2>>}

KingDeltas ==
    {<<1, 0>>, <<1, 1>>, <<0, 1>>, <<-1, 1>>, <<-1, 0>>, <<-1, -1>>, <<0, -1>>, <<1, -1>>}

RookDeltas == {<<1, 0>>, <<0, 1>>, <<-1, 0>>, <<0, -1>>}

BishopDeltas == {<<1, 1>>, <<-1, 1>>, <<-1, -1>>, <<1, -1>>}

knight_attacks(s) == Steps(s, KnightDeltas)

king_attacks(s) == Steps(s, KingDeltas)

\* Pawns attack one rank forward, one file aside: up for White, down for Black.
pawn_attacks(s, color) ==
    Steps(s, IF color = White THEN {<<1, 1>>, <<-1, 1>>} ELSE {<<1, -1>>, <<-1, -1>>})

\* The squares of the ray that starts on (f, r) and runs by (df, dr), up to
\* and including the first occupied square.
RECURSIVE Ray(_, _, _, _, _)
Ray(f, r, df, dr, occupied) ==
    IF ~OnBoard(f, r) THEN {}
    ELSE IF Square_new(f, r) \in occupied THEN {Square_new(f, r)}
         ELSE {Square_new(f, r)} \cup Ray(f + df, r + dr, df, dr, occupied)

\* The squares a slider on s reaches along deltas.
SlideAttacks(s, occupied, deltas) ==
    UNION {Ray(Square_file(s) + d[1], Square_rank(s) + d[2], d[1], d[2], occupied) :
              d \in deltas}

rook_attacks(s, occupied) == SlideAttacks(s, occupied, RookDeltas)

bishop_attacks(s, occupied) == SlideAttacks(s, occupied, BishopDeltas)

\* Whether a piece of the opponent of player attacks sq.
is_attacked(b, sq, player) ==
    LET opp == b.colors[1 - player]
        all == all_bits(b)
        queens == b.pieces[Queen]
    IN  \/ BitAnd(BitAnd(opp, b.pieces[Pawn]), pawn_attacks(sq, player)) # {}
        \/ BitAnd(BitAnd(opp, b.pieces[Knight]), knight_attacks(sq)) # {}
        \/ BitAnd(BitAnd(opp, b.pieces[King]), king_attacks(sq)) # {}
        \/ BitAnd(BitAnd(opp, BitOr(b.pieces[Bishop], queens)), bishop_attacks(sq, all)) # {}
        \/ BitAnd(BitAnd(opp, BitOr(b.pieces[Rook], queens)), rook_attacks(sq, all)) # {}

----------------------------------------------------------------------------
(* Position: hexe/src/position/mod.rs *)

\* A PieceMap holds one byte per square: a Piece, or 12 for none.
NoPiece == 12

\* PieceMap::STANDARD: the starting placement of chess.
BackRank == <<Rook, Knight, Bishop, Queen, King, Bishop, Knight, Rook>>

PieceMap_STANDARD ==
    [s \in Squares |->
        CASE Square_rank(s) = 0 -> Piece_new(BackRank[Square_file(s) + 1], White)
          [] Square_rank(s) = 1 -> Piece_new(Pawn, White)
          [] Square_rank(s) = 6 -> Piece_new(Pawn, Black)
          [] Square_rank(s) = 7 -> Piece_new(BackRank[Square_file(s) + 1], Black)
          [] OTHER -> NoPiece]

\* The values a MultiBoard can take.
MultiBoards ==
    [pieces : [PieceKinds -> SUBSET Squares], colors : [Colors -> SUBSET Squares]]

\* impl From<&PieceMap> for MultiBoard: from the default board,
\* insert_unchecked(square, piece) for each (square, piece) of the map, in
\* the order of the squares.  after[r] is the board once the ranks below r
\* have been visited, and rankFrom[b, r] visits the squares of rank r in
\* the order of their files, starting from board b.
MultiBoard_from(map) ==
    LET visit(b, s) ==
            IF map[s] = NoPiece THEN b ELSE insert_unchecked(b, {s}, map[s])
        rankFrom[b \in MultiBoards, r \in 0 .. 7] ==
            LET f[n \in 0 .. 8] ==
                    IF n = 0 THEN b ELSE visit(f[n - 1], Square_new(n - 1, r))
            IN  f[8]
        after[r \in 0 .. 8] ==
            IF r = 0 THEN MultiBoard_default ELSE rankFrom[after[r - 1], r - 1]
    IN  after[8]

\* impl Default for Position: State::STANDARD, PieceMap::STANDARD,
\* MultiBoard::STANDARD, Color::White
Position_default ==
    [rights |-> CastleRights_FULL,
     pieces |-> PieceMap_STANDARD,
     board |-> STANDARD,
     player |-> White]

\* #[derive(Clone)]: a copy of every field
Position_clone(p) ==
    [rights |-> p.rights, pieces |-> p.pieces, board |-> p.board, player |-> p.player]

\* Bitboard::lsb_unchecked on a bitboard that is not empty
lsb_unchecked(bb) == CHOOSE s \in bb : \A t \in bb : s <= t

\* king_square: bitboard(Piece::new(Role::King, color)).lsb_unchecked()
king_square(p, color) ==
    lsb_unchecked(bitboard(p.board, PieceVal(Piece_new(King, color))))

\* enum MoveKind
Normal == 0
Castle_kind == 1
Promotion == 2
EnPassant == 3

\* A move as is_legal reads it: its kind, and for a castle its right.
CastleMove(right) == [kind |-> Castle_kind, right |-> right]

OtherMove(kind) == [kind |-> kind, right |-> NoArg]

\* What a call returns: a boolean, or no value when it ends in unimplemented!().
Returned(v) == [panicked |-> FALSE, value |-> v]

Unimplemented == [panicked |-> TRUE, value |-> FALSE]

NoRet == [panicked |-> FALSE, value |-> FALSE]

\* A faulty is_legal that leaves out the test of the castling rights.
is_legal_no_rights(p, mv) ==
    LET player == p.player
        king == king_square(p, player)
        checked == is_attacked(p.board, king, player)
    IN  IF mv.kind = Castle_kind
        THEN IF checked
             THEN Returned(FALSE)
             ELSE IF \E sq \in path(mv.right) : is_attacked(p.board, sq, player)
                  THEN Returned(FALSE)
                  ELSE Returned(TRUE)
        ELSE Unimplemented

\* A faulty is_legal that refuses every move that is not a castle.
is_legal_refuses_others(p, mv) ==
    LET player == p.player
        king == king_square(p, player)
        checked == is_attacked(p.board, king, player)
    IN  IF mv.kind = Castle_kind
        THEN IF checked
             THEN Returned(FALSE)
             ELSE IF player # CastleRight_color(mv.right) \/ mv.right \notin p.rights
                  THEN Returned(FALSE)
                  ELSE IF \E sq \in path(mv.right) : is_attacked(p.board, sq, player)
                       THEN Returned(FALSE)
                       ELSE Returned(TRUE)
        ELSE Returned(FALSE)

\* Position::is_legal
is_legal(p, mv) ==
    LET player == p.player
        king == king_square(p, player)
        checked == is_attacked(p.board, king, player)
    IN  IF mv.kind = Castle_kind
        THEN IF checked
             THEN Returned(FALSE)
             ELSE IF player # CastleRight_color(mv.right) \/ mv.right \notin p.rights
                  THEN Returned(FALSE)
                  ELSE IF \E sq \in path(mv.right) : is_attacked(p.board, sq, player)
                       THEN Returned(FALSE)
                       ELSE Returned(TRUE)
        ELSE Unimplemented

----------------------------------------------------------------------------
(* Specification Spec: a board under insert, remove and remove_all *)

\* Number of squares the bits arguments range over.
NumTracked == 2

\* The squares bits arguments are drawn from: in STANDARD a white rook, a
\* black king, an empty square and a white pawn.
TrackedSeq == <<A1, E8, E4, D2>>

Tracked == {TrackedSeq[i] : i \in 1 .. NumTracked}

\* Each tracked square alone, and all of them together.
BitsInputs == {{s} : s \in Tracked} \cup {Tracked}

Init ==
    /\ board \in {MultiBoard_default, STANDARD}
    /\ last = NoCall
    /\ prev = board
    /\ pos = Position_default
    /\ ret = NoRet

\* The arguments of an insert are recorded, and those of a remove that
\* repeats the arguments of the insert before it; the arguments of any other
\* remove or remove_all are not: the properties of such a step quantify over
\* them.
Insert(bits, piece) ==
    /\ board' = insert(board, bits, piece)
    /\ last' = Call("insert", bits, piece, FALSE)
    /\ UNCHANGED <<prev, pos, ret>>

Remove(bits, value) ==
    /\ board' = remove(board, bits, value)
    /\ last' = IF value.t = "Piece" /\ last = Call("insert", bits, value.v, FALSE)
               THEN Call("remove", bits, value.v, TRUE)
               ELSE Call("remove", {}, NoArg, FALSE)
    /\ UNCHANGED <<prev, pos, ret>>

RemoveAll(bits) ==
    /\ board' = remove_all(board, bits)
    /\ last' = Call("remove_all", {}, NoArg, FALSE)
    /\ UNCHANGED <<prev, pos, ret>>

Next ==
    \/ \E bits \in BitsInputs, piece \in Pieces : Insert(bits, piece)
    \/ \E bits \in BitsInputs, value \in IndexValues : Remove(bits, value)
    \/ \E bits \in BitsInputs : RemoveAll(bits)

Spec == Init /\ [][Next]_vars

----------------------------------------------------------------------------
(* Specification SpecCastle: any board under castle *)

\* Number of single-bit writes through split_mut that shape the first board.
MaxEdits == 1

\* STANDARD with the four paths vacated; the example of castle's doc vacates
\* the white queenside path (B1, C1, D1) in this way.
PRECASTLE ==
    remove_all(STANDARD, UNION {path(r) : r \in CastleRightValues})

\* The squares castle writes.
CastleSquares == UNION {MASKS(r)[1] \cup MASKS(r)[2] : r \in CastleRightValues}

\* The boards written: the four castle writes (Rook, King and the two
\* colors) and one it leaves alone (Pawn), numbered as in split_mut_flip.
FlipBoards == {Pawn, Rook, King, NUM_PIECES + White, NUM_PIECES + Black}

Flips == FlipBoards \X CastleSquares

\* The boards reached from the bases by at most n single-bit writes.
RECURSIVE EditedBoards(_)
EditedBoards(n) ==
    IF n = 0 THEN {MultiBoard_default, STANDARD, PRECASTLE}
    ELSE LET p == EditedBoards(n - 1)
         IN  p \cup {split_mut_flip(b, f[1], f[2]) : b \in p, f \in Flips}

InitCastle ==
    /\ board \in EditedBoards(MaxEdits)
    /\ last = NoCall
    /\ prev = board
    /\ pos = Position_default
    /\ ret = NoRet

Castle(right) ==
    /\ board' = castle(board, right)
    /\ last' = Call("castle", {}, right, last.op = "castle" /\ last.arg = right)
    /\ prev' = board
    /\ UNCHANGED <<pos, ret>>

NextCastle == \E right \in CastleRightValues : Castle(right)

SpecCastle == InitCastle /\ [][NextCastle]_vars

----------------------------------------------------------------------------
(* Specification SpecPos: is_legal on a position *)

\* Number of squares of the starting placement that are rewritten to make
\* the placement of a position.
MaxPosEdits == 1

\* The squares rewritten, and what is written there: nothing, or a knight, a
\* rook or a pawn of either color.  No king is added or taken away.
EditSquares == {D2, F3, D7, F6}

EditValues ==
    {NoPiece} \cup {Piece_new(k, c) : k \in {Knight, Rook, Pawn}, c \in Colors}

\* The starting placement with the given squares vacated.
Vacated(squares) ==
    [s \in Squares |-> IF s \in squares THEN NoPiece ELSE PieceMap_STANDARD[s]]

BaseMaps ==
    {PieceMap_STANDARD,
     Vacated({B1, C1, D1}),
     Vacated(UNION {path(r) : r \in CastleRightValues})}

RECURSIVE EditedMaps(_)
EditedMaps(n) ==
    IF n = 0 THEN BaseMaps
    ELSE LET m == EditedMaps(n - 1)
         IN  m \cup {[map EXCEPT ![s] = v] : map \in m, s \in EditSquares, v \in EditValues}

\* The rights of a position: none, all, and two sets that hold one right of
\* each color.
RightsInputs ==
    {{}, CastleRights_FULL, {WhiteKingside, BlackQueenside}, {WhiteQueenside, BlackKingside}}

MoveInputs ==
    {CastleMove(r) : r \in CastleRightValues}
        \cup {OtherMove(k) : k \in {Normal, Promotion, EnPassant}}

InitPos ==
    /\ \/ pos = Position_default
       \/ \E map \in EditedMaps(MaxPosEdits), player \in Colors,
             rights \in RightsInputs :
             pos = [rights |-> rights, pieces |-> map,
                    board |-> MultiBoard_from(map), player |-> player]
    /\ board = MultiBoard_default
    /\ prev = board
    /\ last = NoCall
    /\ ret = NoRet

IsLegal(mv) ==
    /\ ret' = is_legal(pos, mv)
    /\ last' = Call("is_legal", {}, mv, FALSE)
    /\ UNCHANGED <<board, prev, pos>>

Clone ==
    /\ pos' = Position_clone(pos)
    /\ last' = Call("clone", {}, NoArg, FALSE)
    /\ ret' = NoRet
    /\ UNCHANGED <<board, prev>>

NextPos ==
    \/ \E mv \in MoveInputs : IsLegal(mv)
    \/ Clone

SpecPos == InitPos /\ [][NextPos]_vars

----------------------------------------------------------------------------
(* Bitboard operators: hexe_core/src/bitboard/impls.rs *)

\* A call that ends in a panic returns no value.
Panic == [panicked |-> TRUE, value |-> FALSE]

\* u64 << n on the set of squares: square s goes to s + n, and the squares
\* pushed past H8 are lost.
ShiftLeft(bits, n) == {s + n : s \in bits} \cap Squares

\* u64 >> n on the set of squares.
ShiftRight(bits, n) == {s - n : s \in bits} \cap Squares

\* u64::shl(shift) and u64::shr(shift): with overflow checks (a debug build)
\* a shift of 64 or more panics with "attempt to shift with overflow"; without
\* them (a release build) the shift amount is taken modulo 64.
u64_shl(bits, shift, checks) ==
    IF shift >= 64
    THEN IF checks THEN Panic ELSE Returned(ShiftLeft(bits, shift % 64))
    ELSE Returned(ShiftLeft(bits, shift))

u64_shr(bits, shift, checks) ==
    IF shift >= 64
    THEN IF checks THEN Panic ELSE Returned(ShiftRight(bits, shift % 64))
    ELSE Returned(ShiftRight(bits, shift))

\* forward_sh_impl!: fn shl(self, shift: T) -> Self { Bitboard((self.0).shl(shift)) }
Bitboard_shl(bits, shift, checks) == u64_shl(bits, shift, checks)

\* forward_sh_impl!: fn shr(self, shift: T) -> Self { Bitboard((self.0).shr(shift)) }
Bitboard_shr(bits, shift, checks) == u64_shr(bits, shift, checks)

\* impl_composition_ops!: the bitwise operators of the inner u64
Bitboard_bitand(a, b) == Returned(BitAnd(a, b))

Bitboard_bitor(a, b) == Returned(BitOr(a, b))

Bitboard_bitxor(a, b) == Returned(BitXor(a, b))

Bitboard_not(a) == Returned(BitNot(a))

----------------------------------------------------------------------------
(* Specification SpecBits: the operators of Bitboard *)

\* The largest shift amount tried.
MaxShift == 65

ShiftInputs == {0, 1, 7, 8, 9, 63} \cup (64 .. MaxShift)

BitboardInputs == {{}, {A1}, {H8}, {A1, E4, H8}, RankSquares(1), Squares}

\* The variables no pure function reads or writes.
Aside ==
    /\ board = MultiBoard_default
    /\ prev = board
    /\ pos = Position_default

InitBits ==
    /\ Aside
    /\ last = NoCall
    /\ ret = NoRet

BitAndOp(a, b) ==
    /\ ret' = Bitboard_bitand(a, b)
    /\ last' = Call("bitand", a, b, FALSE)
    /\ UNCHANGED <<board, prev, pos>>

BitOrOp(a, b) ==
    /\ ret' = Bitboard_bitor(a, b)
    /\ last' = Call("bitor", a, b, FALSE)
    /\ UNCHANGED <<board, prev, pos>>

BitXorOp(a, b) ==
    /\ ret' = Bitboard_bitxor(a, b)
    /\ last' = Call("bitxor", a, b, FALSE)
    /\ UNCHANGED <<board, prev, pos>>

NotOp(a) ==
    /\ ret' = Bitboard_not(a)
    /\ last' = Call("not", a, NoArg, FALSE)
    /\ UNCHANGED <<board, prev, pos>>

\* pair records whether the build has overflow checks.
ShlOp(a, shift, checks) ==
    /\ ret' = Bitboard_shl(a, shift, checks)
    /\ last' = Call("shl", a, shift, checks)
    /\ UNCHANGED <<board, prev, pos>>

ShrOp(a, shift, checks) ==
    /\ ret' = Bitboard_shr(a, shift, checks)
    /\ last' = Call("shr", a, shift, checks)
    /\ UNCHANGED <<board, prev, pos>>

NextBits ==
    \/ \E a \in BitboardInputs, b \in BitboardInputs : BitAndOp(a, b)
    \/ \E a \in BitboardInputs, b \in BitboardInputs : BitOrOp(a, b)
    \/ \E a \in BitboardInputs, b \in BitboardInputs : BitXorOp(a, b)
    \/ \E a \in BitboardInputs : NotOp(a)
    \/ \E a \in BitboardInputs, shift \in ShiftInputs, checks \in BOOLEAN :
          ShlOp(a, shift, checks)
    \/ \E a \in BitboardInputs, shift \in ShiftInputs, checks \in BOOLEAN :
          ShrOp(a, shift, checks)

SpecBits == InitBits /\ [][NextBits]_vars

----------------------------------------------------------------------------
(* Square::tri_index: hexe_core/src/square/mod.rs *)

\* const TRIANGLE_LEN: usize = 64 * 65 / 2
TRIANGLE_LEN == (64 * 65) \div 2

\* d >> 31 on an isize whose magnitude is below 2^31: the sign, as all ones
\* (-1) or all zeros.
SignMask(d) == IF d < 0 THEN 0 - 1 ELSE 0

\* d & m for a mask m that is all ones or all zeros.
AndMask(d, m) == IF m = 0 THEN 0 ELSE d

\* x ^ y on two numbers of w bits.
RECURSIVE XorBits(_, _, _)
XorBits(x, y, w) ==
    IF w = 0 THEN 0
    ELSE (IF x % 2 = y % 2 THEN 0 ELSE 1) + 2 * XorBits(x \div 2, y \div 2, w - 1)

\* A faulty tri_index that leaves out d &= d >> 31 and so does not order the
\* two squares.
tri_index_unordered(self, other) ==
    LET a0 == self
        b0 == other
        d1 == a0 - b0
        b1 == b0 + d1
        a1 == a0 - d1
        b2 == b1 * XorBits(b1, 127, 7)
    IN  (b2 \div 2) + a1

\* A faulty tri_index that multiplies by b ^ 63.
tri_index_xor_63(self, other) ==
    LET a0 == self
        b0 == other
        d0 == a0 - b0
        d1 == AndMask(d0, SignMask(d0))
        b1 == b0 + d1
        a1 == a0 - d1
        b2 == b1 * XorBits(b1, 63, 7)
    IN  (b2 \div 2) + a1

\* tri_index: d = a - b; d &= d >> 31; b += d; a -= d; b *= b ^ 127;
\* (b >> 1) + a
tri_index(self, other) ==
    LET a0 == self
        b0 == other
        d0 == a0 - b0
        d1 == AndMask(d0, SignMask(d0))
        b1 == b0 + d1
        a1 == a0 - d1
        b2 == b1 * XorBits(b1, 127, 7)
    IN  (b2 \div 2) + a1

----------------------------------------------------------------------------
(* Square::up, down, right, left: hexe_core/src/square/mod.rs *)

\* enum File { A, .., H } and enum Rank { One, .., Eight }
Files == 0 .. 7

Ranks == 0 .. 7

\* Square::up: None on Rank::Eight, else self + (1 << RANK_SHIFT)
Square_up(s) ==
    IF Square_rank(s) = 7 THEN None ELSE Some(s + Pow2(RANK_SHIFT))

\* Square::down: None on Rank::One, else self - (1 << RANK_SHIFT)
Square_down(s) ==
    IF Square_rank(s) = 0 THEN None ELSE Some(s - Pow2(RANK_SHIFT))

\* A faulty Square::right that stops only at the last square.
Square_right_wrapping(s) ==
    IF s = 63 THEN None ELSE Some(s + 1)

\* Square::right: None on File::H, else self + 1
Square_right(s) ==
    IF Square_file(s) = 7 THEN None ELSE Some(s + 1)

\* Square::left: None on File::A, else self - 1
Square_left(s) ==
    IF Square_file(s) = 0 THEN None ELSE Some(s - 1)

----------------------------------------------------------------------------
(* Bitboard from a Square, a File or a Rank: hexe_core/src/bitboard/impls.rs *)

\* masks::FILE_A and masks::RANK_1, the home masks: the squares of file A
\* (0x0101010101010101) and of the first rank (0xFF)
masks_FILE_A == {0, 8, 16, 24, 32, 40, 48, 56}

masks_RANK_1 == 0 .. 7

\* From<Square>: Bitboard(1 << square as usize)
Bitboard_from_square(square) == Returned(ShiftLeft({0}, square))

\* From<File>: masks::FILE_A << file as usize
Bitboard_from_file(file) == Bitboard_shl(masks_FILE_A, file, TRUE)

\* A faulty From<Rank> that shifts by the rank and not by eight times it.
Bitboard_from_rank_unscaled(rank) == Bitboard_shl(masks_RANK_1, rank, TRUE)

\* From<Rank>: masks::RANK_1 << ((rank as usize) << 3)
Bitboard_from_rank(rank) == Bitboard_shl(masks_RANK_1, rank * Pow2(3), TRUE)

----------------------------------------------------------------------------
(* Specification SpecSquare: the functions of Square *)

\* The two squares of a call are drawn at the start.
InitSquare ==
    /\ Aside
    /\ \E a \in Squares, b \in Squares : last = Call("input", {}, <<a, b>>, FALSE)
    /\ ret = NoRet

TriIndex ==
    /\ ret' = Returned(tri_index(last.arg[1], last.arg[2]))
    /\ last' = Call("tri_index", {}, last.arg, FALSE)
    /\ UNCHANGED <<board, prev, pos>>

\* Square::new of a file and a rank
SquareNew(file, rank) ==
    /\ ret' = Returned(Square_new(file, rank))
    /\ last' = Call("new", {}, <<file, rank>>, FALSE)
    /\ UNCHANGED <<board, prev, pos>>

\* file() and rank() of the first square
FileRank ==
    /\ ret' = Returned(<<Square_file(last.arg[1]), Square_rank(last.arg[1])>>)
    /\ last' = Call("file_rank", {}, last.arg, FALSE)
    /\ UNCHANGED <<board, prev, pos>>

Up ==
    /\ ret' = Returned(Square_up(last.arg[1]))
    /\ last' = Call("up", {}, last.arg, FALSE)
    /\ UNCHANGED <<board, prev, pos>>

Down ==
    /\ ret' = Returned(Square_down(last.arg[1]))
    /\ last' = Call("down", {}, last.arg, FALSE)
    /\ UNCHANGED <<board, prev, pos>>

Right ==
    /\ ret' = Returned(Square_right(last.arg[1]))
    /\ last' = Call("right", {}, last.arg, FALSE)
    /\ UNCHANGED <<board, prev, pos>>

Left ==
    /\ ret' = Returned(Square_left(last.arg[1]))
    /\ last' = Call("left", {}, last.arg, FALSE)
    /\ UNCHANGED <<board, prev, pos>>

\* Bitboard::from of the first square
FromSquare ==
    /\ ret' = Bitboard_from_square(last.arg[1])
    /\ last' = Call("from_square", {}, last.arg, FALSE)
    /\ UNCHANGED <<board, prev, pos>>

\* Bitboard::from of a file
FromFile(file) ==
    /\ ret' = Bitboard_from_file(file)
    /\ last' = Call("from_file", {}, <<file, file>>, FALSE)
    /\ UNCHANGED <<board, prev, pos>>

\* Bitboard::from of a rank
FromRank(rank) ==
    /\ ret' = Bitboard_from_rank(rank)
    /\ last' = Call("from_rank", {}, <<rank, rank>>, FALSE)
    /\ UNCHANGED <<board, prev, pos>>

NextSquare ==
    \/ TriIndex
    \/ \E file \in Files, rank \in Ranks : SquareNew(file, rank)
    \/ FileRank
    \/ Up
    \/ Down
    \/ Right
    \/ Left
    \/ FromSquare
    \/ \E file \in Files : FromFile(file)
    \/ \E rank \in Ranks : FromRank(rank)

SpecSquare == InitSquare /\ [][NextSquare]_vars

----------------------------------------------------------------------------
(* Specification SpecRights: CastleRights and CastleRight *)

\* The longest string parsed.
MaxStrLen == 4

\* The bytes of a string: the four letters, the dash, and x for any other byte.
Alphabet == {"K", "Q", "k", "q", "-", "x"}

Strings == UNION {[1 .. n -> Alphabet] : n \in 0 .. MaxStrLen}

Bytes == 0 .. 255

\* impl_composition_ops! { CastleRights => CastleRight }: | and & of the
\* inner u8
CastleRights_bitor(a, b) == BitOr(a, b)

CastleRights_bitand(a, b) == BitAnd(a, b)

\* The values the public constructors give.
ConstructedRights ==
    {CastleRights_from_u8(n) : n \in Bytes}
        \cup {CastleRights_from_color(c) : c \in Colors}
        \cup {CastleRights_from_right(r) : r \in CastleRightValues}
        \cup {WHITE_KINGSIDE, WHITE_QUEENSIDE, BLACK_KINGSIDE, BLACK_QUEENSIDE,
               CastleRights_FULL, CastleRights_EMPTY}

\* The argument of the first call is drawn at the start: a string, a byte, a
\* color, a right, or a color and a side.
InitRights ==
    /\ Aside
    /\ ret = NoRet
    /\ \/ \E s \in Strings : last = Call("str", {}, s, FALSE)
       \/ \E n \in Bytes : last = Call("u8", {}, n, FALSE)
       \/ \E c \in Colors : last = Call("color", {}, c, FALSE)
       \/ \E r \in CastleRightValues : last = Call("right", {}, r, FALSE)
       \/ \E c \in Colors, side \in CastleSides :
             last = Call("color_side", {}, <<c, side>>, FALSE)

\* The calls that return a CastleRights, and the value the last call returned.
RightsOps == {"from_u8", "from_color", "from_right", "bitor", "bitand"}

HasRights == last.op \in RightsOps \/ (last.op = "from_str" /\ ret.value.ok)

Current == IF last.op = "from_str" THEN ret.value.rights ELSE ret.value

FromU8 ==
    /\ last.op = "u8"
    /\ ret' = Returned(CastleRights_from_u8(last.arg))
    /\ last' = Call("from_u8", {}, last.arg, FALSE)
    /\ UNCHANGED <<board, prev, pos>>

FromColor ==
    /\ last.op = "color"
    /\ ret' = Returned(CastleRights_from_color(last.arg))
    /\ last' = Call("from_color", {}, last.arg, FALSE)
    /\ UNCHANGED <<board, prev, pos>>

FromRight ==
    /\ last.op = "right"
    /\ ret' = Returned(CastleRights_from_right(last.arg))
    /\ last' = Call("from_right", {}, last.arg, FALSE)
    /\ UNCHANGED <<board, prev, pos>>

FromStr ==
    /\ last.op = "str"
    /\ ret' = Returned(from_str(last.arg))
    /\ last' = Call("from_str", {}, last.arg, FALSE)
    /\ UNCHANGED <<board, prev, pos>>

\* rights | other and rights & other
Union(other) ==
    /\ HasRights
    /\ ret' = Returned(CastleRights_bitor(Current, other))
    /\ last' = Call("bitor", other, NoArg, FALSE)
    /\ UNCHANGED <<board, prev, pos>>

Intersection(other) ==
    /\ HasRights
    /\ ret' = Returned(CastleRights_bitand(Current, other))
    /\ last' = Call("bitand", other, NoArg, FALSE)
    /\ UNCHANGED <<board, prev, pos>>

\* map_str on the rights the last call returned; pair: the rights were
\* parsed from the string last.arg.
MapStr ==
    /\ HasRights
    /\ ret' = Returned(map_str(Current))
    /\ last' = Call("map_str", Current, last.arg, last.op = "from_str")
    /\ UNCHANGED <<board, prev, pos>>

\* from_str on the string map_str has just made of the rights last.bits
ParseBack ==
    /\ last.op = "map_str"
    /\ ~last.pair
    /\ ret' = Returned(from_str(ret.value))
    /\ last' = Call("parse_back", last.bits, ret.value, TRUE)
    /\ UNCHANGED <<board, prev, pos>>

Extract ==
    /\ HasRights
    /\ ret' = Returned(CastleRights_extract(Current))
    /\ last' = Call("extract", Current, NoArg, FALSE)
    /\ UNCHANGED <<board, prev, pos>>

Path ==
    /\ last.op = "right"
    /\ ret' = Returned(path(last.arg))
    /\ last' = Call("path", {}, last.arg, FALSE)
    /\ UNCHANGED <<board, prev, pos>>

New ==
    /\ last.op = "color_side"
    /\ ret' = Returned(CastleRight_new(last.arg[1], last.arg[2]))
    /\ last' = Call("new", {}, last.arg, FALSE)
    /\ UNCHANGED <<board, prev, pos>>

\* CastleRight::from_char(char::from(right))
FromChar ==
    /\ last.op = "right"
    /\ ret' = Returned(CastleRight_from_char(char_from(last.arg)))
    /\ last' = Call("from_char", {}, last.arg, FALSE)
    /\ UNCHANGED <<board, prev, pos>>

NextRights ==
    \/ FromU8
    \/ FromColor
    \/ FromRight
    \/ FromStr
    \/ \E other \in ConstructedRights : Union(other)
    \/ \E other \in ConstructedRights : Intersection(other)
    \/ MapStr
    \/ ParseBack
    \/ Extract
    \/ Path
    \/ New
    \/ FromChar

SpecRights == InitRights /\ [][NextRights]_vars

----------------------------------------------------------------------------
(* Move: hexe/src/mv/mod.rs *)

FROM_SHIFT == 0
TO_SHIFT == 6
PROM_SHIFT == 12
KIND_SHIFT == 14

\* x | y and x & y on two numbers of w bits.
RECURSIVE OrBits(_, _, _)
OrBits(x, y, w) ==
    IF w = 0 THEN 0
    ELSE (IF x % 2 = 1 \/ y % 2 = 1 THEN 1 ELSE 0) + 2 * OrBits(x \div 2, y \div 2, w - 1)

RECURSIVE AndBits(_, _, _)
AndBits(x, y, w) ==
    IF w = 0 THEN 0
    ELSE (IF x % 2 = 1 /\ y % 2 = 1 THEN 1 ELSE 0) + 2 * AndBits(x \div 2, y \div 2, w - 1)

\* x << n and x >> n on a u16
Shl16(x, n) == (x * Pow2(n)) % Pow2(16)

Shr16(x, n) == x \div Pow2(n)

\* enum Promotion { Knight, Bishop, Rook, Queen } and enum MoveKind
Promotions == 0 .. 3

MoveKinds == {Normal, Castle_kind, Promotion, EnPassant}

\* base_bits!: (($s1 as u16) << FROM_SHIFT) | (($s2 as u16) << TO_SHIFT)
base_bits(s1, s2) == OrBits(Shl16(s1, FROM_SHIFT), Shl16(s2, TO_SHIFT), 16)

\* A faulty Move::new that shifts the kind by PROM_SHIFT.
Move_new_kind_at_prom(from, to, prom, kind) ==
    OrBits(OrBits(base_bits(from, to), Shl16(prom, PROM_SHIFT), 16),
           Shl16(kind, PROM_SHIFT), 16)

\* Move::new: base_bits!(from, to) | (prom << PROM_SHIFT) | (kind << KIND_SHIFT)
Move_new(from, to, prom, kind) ==
    OrBits(OrBits(base_bits(from, to), Shl16(prom, PROM_SHIFT), 16),
           Shl16(kind, KIND_SHIFT), 16)

\* Move::from: (self.0 >> FROM_SHIFT) & 0x3F
Move_from(m) == AndBits(Shr16(m, FROM_SHIFT), 63, 16)

\* Move::to: (self.0 >> TO_SHIFT) & 0x3F
Move_to(m) == AndBits(Shr16(m, TO_SHIFT), 63, 16)

\* Move::promotion: (self.0 >> PROM_SHIFT) & 0x3
Move_promotion(m) == AndBits(Shr16(m, PROM_SHIFT), 3, 16)

\* Move::kind: (self.0 >> KIND_SHIFT) & 0x3
Move_kind(m) == AndBits(Shr16(m, KIND_SHIFT), 3, 16)

\* #[derive(PartialEq)] on Move(u16): the packed words are equal
Move_eq(m1, m2) == m1 = m2

----------------------------------------------------------------------------
(* Specification SpecMove: packing and unpacking a Move *)

\* The squares moves are made of: the corners of the 6-bit range and
\* squares with one bit and with several bits set.
MoveSquares == {A1, B1, D2, E4, H8}

MoveArgs == MoveSquares \X MoveSquares \X Promotions \X MoveKinds

\* The arguments of two moves are drawn at the start.
InitMove ==
    /\ Aside
    /\ ret = NoRet
    /\ \E a \in MoveArgs, b \in MoveArgs : last = Call("args", {}, <<a, b>>, FALSE)

\* Move::new for both, and the comparison of the two moves
MoveNew ==
    /\ last.op = "args"
    /\ LET a == last.arg[1]
           b == last.arg[2]
           m1 == Move_new(a[1], a[2], a[3], a[4])
           m2 == Move_new(b[1], b[2], b[3], b[4])
       IN  ret' = Returned([m1 |-> m1, m2 |-> m2, eq |-> Move_eq(m1, m2)])
    /\ last' = Call("new", {}, last.arg, FALSE)
    /\ UNCHANGED <<board, prev, pos>>

\* from(), to(), promotion() and kind() of the first move
MoveUnpack ==
    /\ last.op = "new"
    /\ LET m == ret.value.m1
       IN  ret' = Returned(<<Move_from(m), Move_to(m), Move_promotion(m), Move_kind(m)>>)
    /\ last' = Call("unpack", {}, last.arg, FALSE)
    /\ UNCHANGED <<board, prev, pos>>

NextMove == MoveNew \/ MoveUnpack

SpecMove == InitMove /\ [][NextMove]_vars

----------------------------------------------------------------------------
(* Table, the transposition table: hexe/src/table/mod.rs *)

\* const CACHE_LINE: usize = 64
CACHE_LINE == 64

\* #[repr(C, align(64))] union Cluster
CLUSTER_ALIGN == 64

\* size_of::<Entry>(): mv: u16 and val: i16
ENTRY_SIZE == 4

\* const ENTRY_COUNT: usize = CACHE_LINE / mem::size_of::<Entry>()
ENTRY_COUNT == CACHE_LINE \div ENTRY_SIZE

\* size_of::<Cluster>(): [Entry; ENTRY_COUNT] rounded up to the alignment
CLUSTER_SIZE ==
    ((ENTRY_COUNT * ENTRY_SIZE + CLUSTER_ALIGN - 1) \div CLUSTER_ALIGN) * CLUSTER_ALIGN

\* const MB_SIZE: usize = 1024 * 1024
MB_SIZE == 1024 * 1024

\* ptr::null_mut()
NULL == 0

\* NonNull::<Cluster>::dangling(): the alignment of Cluster as an address
NonNull_dangling == CLUSTER_ALIGN

\* The heap: the buffers calloc has handed out and free has not taken back,
\* and whether free was ever given a pointer that is not such a buffer.
EmptyHeap == [live |-> {}, bad |-> FALSE]

\* libc::calloc(nmemb, size) returning p: NULL when the memory is not there
libc_calloc(heap, p, nmemb, size) ==
    IF p = NULL THEN heap
    ELSE [heap EXCEPT !.live = @ \cup {[base |-> p, size |-> nmemb * size]}]

\* libc::free(ptr): nothing for NULL, the end of the buffer at ptr otherwise
libc_free(heap, ptr) ==
    IF ptr = NULL THEN heap
    ELSE IF \E b \in heap.live : b.base = ptr
         THEN [heap EXCEPT !.live = {b \in @ : b.base # ptr}]
         ELSE [heap EXCEPT !.bad = TRUE]

\* usize::next_power_of_two: the smallest power of two at or above n
RECURSIVE NextPow(_, _)
NextPow(p, n) == IF p >= n THEN p ELSE NextPow(2 * p, n)

next_power_of_two(n) == NextPow(1, n)

\* Table::dealloc: libc::free(self.start)
Table_dealloc(t, heap) == libc_free(heap, t.start)

\* A faulty resize_exact without the early return and without the free of
\* the old buffer.
Table_resize_exact_leaking(t, heap, size_mb, p) ==
    LET new_len == (size_mb * MB_SIZE) \div CLUSTER_SIZE
        val == p + CLUSTER_SIZE
    IN  [table |-> [start |-> p,
                    align |-> val - (val % CLUSTER_SIZE),
                    len |-> t.len + new_len],
         heap |-> libc_calloc(heap, p, new_len + 1, CLUSTER_SIZE)]

\* Table::resize_exact, with p what calloc returns if it is called
Table_resize_exact(t, heap, size_mb, p) ==
    LET new_len == (size_mb * MB_SIZE) \div CLUSTER_SIZE
    IN  IF new_len = t.len THEN [table |-> t, heap |-> heap]
        ELSE LET freed == IF t.start # NULL THEN Table_dealloc(t, heap) ELSE heap
                 val == p + CLUSTER_SIZE
             IN  [table |-> [start |-> p,
                             align |-> val - (val % CLUSTER_SIZE),
                             len |-> new_len],
                  heap |-> libc_calloc(freed, p, new_len + 1, CLUSTER_SIZE)]

\* Table::resize: self.resize_exact(size_mb.next_power_of_two())
Table_resize(t, heap, size_mb, p) ==
    Table_resize_exact(t, heap, next_power_of_two(size_mb), p)

\* Table::new(size_mb, exact)
Table_new(heap, size_mb, exact, p) ==
    LET table == [start |-> NULL, align |-> NonNull_dangling, len |-> 0]
    IN  IF exact THEN Table_resize_exact(table, heap, size_mb, p)
        ELSE Table_resize(table, heap, size_mb, p)

\* Table::size: self.len * ENTRY_COUNT
Table_size(t) == t.len * ENTRY_COUNT

\* Table::size_mb: self.len * CLUSTER_SIZE / MB_SIZE
Table_size_mb(t) == (t.len * CLUSTER_SIZE) \div MB_SIZE

\* A slice of n elements of size bytes each at ptr, as the bytes
\* lo .. hi - 1.
Slice(ptr, n, size) == [lo |-> ptr, hi |-> ptr + n * size]

\* Table::clusters_mut: slice::from_raw_parts_mut(ptr, self.len * CLUSTER_SIZE),
\* a slice of Cluster
clusters_mut(t) == Slice(t.align, t.len * CLUSTER_SIZE, CLUSTER_SIZE)

\* util::zero(slice): every byte of the slice is written with zero
util_zero(slice) == slice

\* Table::clear, as the bytes it writes
Table_clear(t) == util_zero(clusters_mut(t))

----------------------------------------------------------------------------
(* Specification SpecTable: one Table from new to drop.
   pos is the table, board the heap with the life of the table, prev the
   bytes the last clear wrote. *)

\* The calls made on one table.
MaxTableCalls == 4

\* The sizes asked for, in megabytes.
TableSizes == 0 .. 3

\* What calloc returns: NULL, or an address aligned to 16 bytes or more.
CallocResults == {NULL, 16, 48, 64}

NoTable == [start |-> NULL, align |-> NonNull_dangling, len |-> 0]

NoSlice == Slice(NULL, 0, CLUSTER_SIZE)

\* "none" before Table::new, "live" until the drop, "dropped" after it
TableState(heap, state, calls) ==
    [live |-> heap.live, bad |-> heap.bad, state |-> state, calls |-> calls]

Heap == [live |-> board.live, bad |-> board.bad]

InitTable ==
    /\ board = TableState(EmptyHeap, "none", 0)
    /\ pos = NoTable
    /\ prev = NoSlice
    /\ last = NoCall
    /\ ret = NoRet

TableNew(size_mb, exact, p) ==
    /\ board.state = "none"
    /\ LET r == Table_new(Heap, size_mb, exact, p)
       IN  /\ pos' = r.table
           /\ board' = TableState(r.heap, "live", 1)
    /\ last' = Call(IF exact THEN "new_exact" ELSE "new", {}, size_mb, FALSE)
    /\ ret' = NoRet
    /\ UNCHANGED prev

Resize(size_mb, p) ==
    /\ board.state = "live"
    /\ board.calls < MaxTableCalls
    /\ LET r == Table_resize(pos, Heap, size_mb, p)
       IN  /\ pos' = r.table
           /\ board' = TableState(r.heap, "live", board.calls + 1)
    /\ last' = Call("resize", {}, size_mb, FALSE)
    /\ ret' = NoRet
    /\ UNCHANGED prev

ResizeExact(size_mb, p) ==
    /\ board.state = "live"
    /\ board.calls < MaxTableCalls
    /\ LET r == Table_resize_exact(pos, Heap, size_mb, p)
       IN  /\ pos' = r.table
           /\ board' = TableState(r.heap, "live", board.calls + 1)
    /\ last' = Call("resize_exact", {}, size_mb, FALSE)
    /\ ret' = NoRet
    /\ UNCHANGED prev

\* size() and size_mb() after a call that sized the table
Sizes ==
    /\ board.state = "live"
    /\ last.op \in {"new", "new_exact", "resize", "resize_exact"}
    /\ ret' = Returned([size |-> Table_size(pos), size_mb |-> Table_size_mb(pos)])
    /\ last' = Call("sizes", {}, <<last.op, last.arg>>, FALSE)
    /\ UNCHANGED <<board, pos, prev>>

Clear ==
    /\ board.state = "live"
    /\ board.calls < MaxTableCalls
    /\ prev' = Table_clear(pos)
    /\ board' = [board EXCEPT !.calls = @ + 1]
    /\ last' = Call("clear", {}, pos.len, FALSE)
    /\ ret' = NoRet
    /\ UNCHANGED pos

\* impl Drop for Table: self.dealloc()
Drop ==
    /\ board.state = "live"
    /\ board' = TableState(Table_dealloc(pos, Heap), "dropped", board.calls)
    /\ last' = Call("drop", {}, pos.len, FALSE)
    /\ ret' = NoRet
    /\ UNCHANGED <<pos, prev>>

NextTable ==
    \/ \E size_mb \in TableSizes, exact \in BOOLEAN, p \in CallocResults :
          TableNew(size_mb, exact, p)
    \/ \E size_mb \in TableSizes, p \in CallocResults : Resize(size_mb, p)
    \/ \E size_mb \in TableSizes, p \in CallocResults : ResizeExact(size_mb, p)
    \/ Sizes
    \/ Clear
    \/ Drop

SpecTable == InitTable /\ [][NextTable]_vars

----------------------------------------------------------------------------
(* Uci, the command loop: hexe/src/engine/uci.rs *)

\* Uci::run_line on a line whose first word is word: false for quit, a
\* panic from the unimplemented!() handlers, true for every other line.
\* The handlers of stop, setoption (with no option name) and go return.
run_line(word) ==
    CASE word = "quit" -> Returned(FALSE)
      [] word = "uci" -> Returned(TRUE)
      [] word = "stop" -> Returned(TRUE)
      [] word = "ponderhit" -> Panic
      [] word = "position" -> Panic
      [] word = "setoption" -> Returned(TRUE)
      [] word = "ucinewgame" -> Panic
      [] word = "go" -> Returned(TRUE)
      [] word = "isready" -> Returned(TRUE)
      [] OTHER -> Returned(TRUE)

\* The loop of start, run or start_with: the lines still to run of the
\* command string (or of stdin) at hand, the items still to come of the
\* iterator of start_with, whether the loop runs, whether a quit line has
\* been read and whether a line was run after it.
UciLoop(mode, items, lines, state, quit, after) ==
    [mode |-> mode, items |-> items, lines |-> lines, state |-> state,
     quit |-> quit, after |-> after]

\* for line in lines { if !self.run_line(line) { break; } }: one turn of
\* the loop of start (lines 76-80) and of run (lines 114-118)
loop_turn(l) ==
    LET word == Head(l.lines)
        r == run_line(word)
    IN  [ret |-> r,
         loop |-> [l EXCEPT
                     !.lines = IF r.panicked \/ ~r.value THEN << >> ELSE Tail(@),
                     !.state = IF r.panicked THEN "panicked" ELSE @,
                     !.quit = @ \/ word = "quit",
                     !.after = @ \/ l.quit]]

\* for line in commands { self.run(line.as_ref()); }: the next item of
\* start_with; run prints "Unknown command" for the empty string and loops
\* over the lines of any other
start_with_next(l) ==
    [l EXCEPT !.lines = Head(l.items), !.items = Tail(@)]

----------------------------------------------------------------------------
(* Specification SpecUci: the loops of start, run and start_with *)

\* The lines of one command string, and of stdin.
MaxUciLines == 2

\* The first words of the lines: quit, a command that returns, a command
\* that is not implemented, and no command at all.
UciWords == {"quit", "isready", "ponderhit", "hello"}

UciStrings == UNION {[1 .. n -> UciWords] : n \in 0 .. MaxUciLines}

\* The items start_with is given: at most two command strings.
UciItems == UNION {[1 .. n -> UciStrings] : n \in 0 .. 2}

InitUci ==
    /\ board = MultiBoard_default
    /\ prev = board
    /\ last = NoCall
    /\ ret = NoRet
    /\ \/ \E lines \in UciStrings :
             pos = UciLoop("start", << >>, lines, "running", FALSE, FALSE)
       \/ \E lines \in UciStrings :
             pos = UciLoop("run", << >>, lines, "running", FALSE, FALSE)
       \/ \E items \in UciItems :
             pos = UciLoop("start_with", items, << >>, "running", FALSE, FALSE)

\* One line is run.
RunLine ==
    /\ pos.state = "running"
    /\ pos.lines # << >>
    /\ LET t == loop_turn(pos)
       IN  /\ pos' = t.loop
           /\ ret' = t.ret
    /\ last' = Call("run_line", {}, Head(pos.lines), FALSE)
    /\ UNCHANGED <<board, prev>>

\* start_with takes its next item.
NextItem ==
    /\ pos.state = "running"
    /\ pos.lines = << >>
    /\ pos.items # << >>
    /\ pos' = start_with_next(pos)
    /\ last' = Call("run", {}, Len(Head(pos.items)), FALSE)
    /\ ret' = NoRet
    /\ UNCHANGED <<board, prev>>

\* The loop is left: nothing more to read, or the break after quit.
LoopEnd ==
    /\ pos.state = "running"
    /\ pos.lines = << >>
    /\ pos.items = << >>
    /\ pos' = [pos EXCEPT !.state = "done"]
    /\ last' = Call("end", {}, NoArg, FALSE)
    /\ ret' = NoRet
    /\ UNCHANGED <<board, prev>>

NextUci == RunLine \/ NextItem \/ LoopEnd

SpecUci == InitUci /\ [][NextUci]_vars

----------------------------------------------------------------------------
(* File::from_char, char::from(File) and Square::from_str:
   hexe_core/src/square/mod.rs.  Characters are their code points and
   strings the sequences of their bytes. *)

\* ch as u8: the low eight bits of the code point
as_u8(ch) == ch % 256

\* File::from_char: match 32 | ch as u8 { b @ b'a' ... b'f' => Some(b - b'a'), _ => None }
File_from_char(ch) ==
    LET b == OrBits(32, as_u8(ch), 8)
    IN  IF b \in 97 .. 102 THEN Some(b - 97) ELSE None

\* impl From<File> for char (impl_components!): (b'A' + val as u8) as char
char_from_file(val) == 65 + val

\* convert!($lo, $hi, $b) of Square::from_str: $b - $lo when $b is in
\* $lo...$hi, else the parse error
convert(lo, hi, b) == IF b \in lo .. hi THEN Some(b - lo) ELSE None

\* Square::from_str: two bytes, a file letter b'a'...b'h' after | 32 and a
\* rank digit b'1'...b'8'
Square_from_str(bytes) ==
    IF Len(bytes) # 2 THEN Err
    ELSE LET file == convert(97, 104, OrBits(bytes[1], 32, 8))
             rank == convert(49, 56, bytes[2])
         IN  IF ~file.some \/ ~rank.some THEN Err
             ELSE Ok(Square_new(file.v, rank.v))

----------------------------------------------------------------------------
(* Specification SpecFile: parsing files and squares *)

\* The characters parsed: all of ASCII, and three characters past U+00FF
\* whose low byte is a letter or a digit.
ParsedChars == (0 .. 127) \cup {321, 353, 305}

\* The second bytes of the strings parsed as squares.
RankBytes == {48, 49, 52, 56, 57}

\* The strings parsed as squares: two ASCII bytes, and one and three bytes.
SquareStrings ==
    {<<b, r>> : b \in 0 .. 127, r \in RankBytes}
        \cup {<<b>> : b \in {97, 104}} \cup {<<97, 49, 49>>}

InitFile ==
    /\ Aside
    /\ last = NoCall
    /\ ret = NoRet

FileFromChar(ch) ==
    /\ ret' = Returned(File_from_char(ch))
    /\ last' = Call("from_char", {}, ch, FALSE)
    /\ UNCHANGED <<board, prev, pos>>

\* File::from_char(char::from(file)), and the same for the lower-case letter
FileRoundTrip(file, lower) ==
    /\ LET ch == char_from_file(file) + (IF lower THEN 32 ELSE 0)
       IN  ret' = Returned(File_from_char(ch))
    /\ last' = Call("round_trip", {}, file, lower)
    /\ UNCHANGED <<board, prev, pos>>

SquareFromStr(s) ==
    /\ ret' = Returned(Square_from_str(s))
    /\ last' = Call("from_str", {}, s, FALSE)
    /\ UNCHANGED <<board, prev, pos>>

NextFile ==
    \/ \E ch \in ParsedChars : FileFromChar(ch)
    \/ \E file \in Files, lower \in BOOLEAN : FileRoundTrip(file, lower)
    \/ \E s \in SquareStrings : SquareFromStr(s)

SpecFile == InitFile /\ [][NextFile]_vars

----------------------------------------------------------------------------
(* MoveVec, the inline vector of moves: hexe/src/mv/vec.rs *)

\* const VEC_CAP: usize = u8::MAX as usize
VEC_CAP == 255

\* What mem::uninitialized() may leave in buf: [u16; VEC_CAP].  Any content
\* is possible; these are the buffer of zeros and the buffers that differ
\* from it in the first, a middle or the last slot.
UninitBuffers ==
    {[i \in 1 .. VEC_CAP |-> 0]}
        \cup {[i \in 1 .. VEC_CAP |-> IF i = k THEN v ELSE 0] :
                  k \in {1, 128, VEC_CAP}, v \in {1, 65535}}

\* impl Default for MoveVec: buf: mem::uninitialized(), len: 0
MoveVec_default(uninit) == [buf |-> uninit, len |-> 0]

\* MoveVec::new: MoveVec::default()
MoveVec_new(uninit) == MoveVec_default(uninit)

\* impl Clone for MoveVec: MoveVec { buf: self.buf, len: self.len }
MoveVec_clone(self) == [buf |-> self.buf, len |-> self.len]

\* impl PartialEq for MoveVec: self.len == other.len && self.buf[..] == other.buf[..]
MoveVec_eq(self, other) == self.len = other.len /\ self.buf = other.buf

----------------------------------------------------------------------------
(* Specification SpecVec: two MoveVec values, pos.a and pos.b *)

InitVec ==
    /\ board = MultiBoard_default
    /\ prev = board
    /\ last = NoCall
    /\ ret = NoRet
    /\ \E x \in UninitBuffers, y \in UninitBuffers :
          pos = [a |-> MoveVec_new(x), b |-> MoveVec_new(y)]

\* b = MoveVec::new()
VecNew(uninit) ==
    /\ pos' = [pos EXCEPT !.b = MoveVec_new(uninit)]
    /\ last' = Call("new", {}, NoArg, FALSE)
    /\ ret' = NoRet
    /\ UNCHANGED <<board, prev>>

\* b = a.clone()
VecClone ==
    /\ pos' = [pos EXCEPT !.b = MoveVec_clone(pos.a)]
    /\ last' = Call("clone", {}, NoArg, FALSE)
    /\ ret' = NoRet
    /\ UNCHANGED <<board, prev>>

\* a == b
VecEq ==
    /\ ret' = Returned(MoveVec_eq(pos.a, pos.b))
    /\ last' = Call("eq", {}, NoArg, FALSE)
    /\ UNCHANGED <<board, prev, pos>>

NextVec == (\E uninit \in UninitBuffers : VecNew(uninit)) \/ VecClone \/ VecEq

SpecVec == InitVec /\ [][NextVec]_vars

----------------------------------------------------------------------------
(* Claims about the board under insert, remove and remove_all (Spec) *)

\* C1: after any sequence of insert, remove and remove_all from the empty
\* board or STANDARD, a square is in some color board if and only if it is in
\* some kind board.
C1_ColorsEqualKinds ==
    \A s \in Squares : (ColorsAt(board, s) # {}) <=> (KindsAt(board, s) # {})

\* C2: after any sequence of insert, remove and remove_all from the empty
\* board or STANDARD, every square is in at most one kind board and in at
\* most one color board.
C2_AtMostOne == OnePiecePerSquare(board)

\* An insert has just put a piece on A1 in a run begun at STANDARD (the white
\* king never left E1), where A1 held the white rook.
C2_Witness ==
    /\ last.op = "insert"
    /\ A1 \in last.bits
    /\ Piece_kind(last.arg) # Rook
    /\ E1 \in bitboard(board, PieceVal(Piece_new(King, White)))

\* Whether square s of board b holds a piece matching value.
Matches(b, s, value) ==
    CASE value.t = "Color" -> value.v \in ColorsAt(b, s)
      [] value.t = "PieceKind" -> value.v \in KindsAt(b, s)
      [] OTHER -> Piece_color(value.v) \in ColorsAt(b, s)
                    /\ Piece_kind(value.v) \in KindsAt(b, s)

RemoveEffect(b1, b2, bits, value) ==
    \A s \in Squares :
        IF s \in bits /\ Matches(b1, s, value)
        THEN Vacant(b2, s)
        ELSE SameAt(b1, b2, s)

\* C3: a step remove(bits, value) vacates the squares of bits that hold a
\* piece matching value and leaves every other square as it was in all eight
\* boards.
C3_RemoveFrame ==
    [][\A bits \in BitsInputs, value \in IndexValues :
          Remove(bits, value) => RemoveEffect(board, board', bits, value)]_vars

\* Outside bits, each of the eight boards has the members it had.
SameOutside(b1, b2, bits) ==
    /\ \A k \in PieceKinds : b2.pieces[k] \ bits = b1.pieces[k] \ bits
    /\ \A c \in Colors : b2.colors[c] \ bits = b1.colors[c] \ bits

InsertEffect(b1, b2, bits, piece) ==
    /\ \A s \in bits :
          KindsAt(b2, s) = {Piece_kind(piece)} /\ ColorsAt(b2, s) = {Piece_color(piece)}
    /\ SameOutside(b1, b2, bits)

\* C8: a step insert(bits, piece) leaves every square of bits in exactly the
\* color board and the kind board of piece, whatever it held before, and
\* every square outside bits as it was in all eight boards.
C8_InsertEffect ==
    [][last'.op = "insert" => InsertEffect(board, board', last'.bits, last'.arg)]_vars

\* An insert of a black piece over both A1 and E8 has acted, in a run begun
\* at STANDARD, where A1 held a white rook.
C8_Witness ==
    /\ last.op = "insert"
    /\ last.bits = {A1, E8}
    /\ Piece_color(last.arg) = Black
    /\ E1 \in bitboard(board, PieceVal(Piece_new(King, White)))

\* C9: after insert(bits, P) followed by remove(bits, P), every square of
\* bits is in none of the eight boards.
C9_InsertThenRemove ==
    (last.op = "remove" /\ last.pair) => \A s \in last.bits : Vacant(board, s)

\* remove(bits, P) has just followed insert(bits, P), over two squares.
C9_Witness ==
    last.op = "remove" /\ last.pair /\ last.bits = {A1, E8}

----------------------------------------------------------------------------
(* Claims about castle (SpecCastle) *)

\* C4: for every right r and every board, castle(r) called twice in a row
\* gives back the board in all eight bitboards.
C4_CastleTwice ==
    [][\A r \in CastleRightValues :
          (last = Call("castle", {}, r, last.pair) /\ Castle(r)) => board' = prev]_vars

\* castle(r) has just been called for the second time in a row, on a board
\* that was not in the pre-castle configuration (the king's square E1 was
\* not in the King board).
C4_Witness ==
    /\ last.op = "castle"
    /\ last.pair
    /\ last.arg = WhiteKingside
    /\ E1 \in board.pieces[King]
    /\ E1 \notin board.colors[White]

\* The squares of a right in chess: the king goes from the E file to the G
\* file (kingside) or the C file (queenside), the rook from the H file to
\* the F file or from the A file to the D file, on rank 1 for White and on
\* rank 8 for Black.
HomeRank(r) == IF CastleRight_color(r) = White THEN 0 ELSE 7

KingHome(r) == Square_new(4, HomeRank(r))

KingDest(r) == Square_new(IF CastleRight_side(r) = 0 THEN 6 ELSE 2, HomeRank(r))

RookDest(r) == Square_new(IF CastleRight_side(r) = 0 THEN 5 ELSE 3, HomeRank(r))

RookCorner(r) == Square_new(IF CastleRight_side(r) = 0 THEN 7 ELSE 0, HomeRank(r))

CastleSquaresOf(r) == {KingHome(r), KingDest(r), RookDest(r), RookCorner(r)}

HoldsPiece(b, s, kind, color) == KindsAt(b, s) = {kind} /\ ColorsAt(b, s) = {color}

PreCastle(b, r) ==
    /\ OnePiecePerSquare(b)
    /\ HoldsPiece(b, KingHome(r), King, CastleRight_color(r))
    /\ HoldsPiece(b, RookCorner(r), Rook, CastleRight_color(r))
    /\ Vacant(b, KingDest(r))
    /\ Vacant(b, RookDest(r))

PostCastle(b1, b2, r) ==
    /\ HoldsPiece(b2, KingDest(r), King, CastleRight_color(r))
    /\ HoldsPiece(b2, RookDest(r), Rook, CastleRight_color(r))
    /\ Vacant(b2, KingHome(r))
    /\ Vacant(b2, RookCorner(r))
    /\ \A s \in Squares \ CastleSquaresOf(r) : SameAt(b1, b2, s)
    /\ OnePiecePerSquare(b2)

\* C10: castle(r) on a board with one piece per square, the king of r on its
\* home square, the rook on r's corner and both destinations empty puts the
\* king on G1/C1/G8/C8 and the rook on F1/D1/F8/D8, empties the king's home
\* and the corner, changes no other square and keeps one piece per square.
C10_CastleLegal ==
    (last.op = "castle" /\ PreCastle(prev, last.arg)) => PostCastle(prev, board, last.arg)

\* BlackQueenside has just been castled from a board that met the conditions.
C10_Witness ==
    /\ last.op = "castle"
    /\ last.arg = BlackQueenside
    /\ PreCastle(prev, last.arg)
    /\ KingDest(last.arg) = C8
    /\ RookDest(last.arg) = D8

----------------------------------------------------------------------------
(* Claims about Position (SpecPos) *)

\* (a) the king of the side to move is attacked
KingAttacked(p) == is_attacked(p.board, king_square(p, p.player), p.player)

\* (b) the right is not one of the side to move, or the position lacks it
RightMissing(p, right) == p.player # CastleRight_color(right) \/ right \notin p.rights

\* (c) a square of the right's path is attacked by the opponent
PathAttacked(p, right) == \E sq \in path(right) : is_attacked(p.board, sq, p.player)

\* is_legal has just returned for a castle move.
CastleAnswered == last.op = "is_legal" /\ last.arg.kind = Castle_kind

\* C5: for a castle move is_legal returns a value, and the value is false if
\* and only if the king of the side to move is attacked, or the right is not
\* the side to move's or not in the rights, or a square of the right's path
\* is attacked; when the king is attacked the value is false whatever the
\* rights and the path are.
C5_CastleLegality ==
    CastleAnswered =>
        /\ ~ret.panicked
        /\ ret.value = FALSE <=>
              \/ KingAttacked(pos)
              \/ RightMissing(pos, last.arg.right)
              \/ PathAttacked(pos, last.arg.right)
        /\ KingAttacked(pos) => ret.value = FALSE

\* is_legal has just refused a castle move for the one reason that the king
\* is attacked: the side to move holds the right and no square of the path
\* is attacked.
C5_Witness ==
    /\ CastleAnswered
    /\ KingAttacked(pos)
    /\ ~RightMissing(pos, last.arg.right)
    /\ ~PathAttacked(pos, last.arg.right)
    /\ ret = Returned(FALSE)

\* C6: is_legal returns true for a castle move only if every square between
\* the king and the rook of the right is unoccupied.
C6_PathUnoccupied ==
    (CastleAnswered /\ ret = Returned(TRUE)) =>
        \A s \in path(last.arg.right) : Vacant(pos.board, s)

\* Whether the piece map and the board of a position say the same of square s.
AgreeAt(map, b, s) ==
    IF map[s] = NoPiece
    THEN Vacant(b, s)
    ELSE /\ s \in bitboard(b, PieceVal(map[s]))
         /\ s \in bitboard(b, KindVal(Piece_kind(map[s])))
         /\ s \in bitboard(b, ColorVal(Piece_color(map[s])))

\* C7: in Position::default, in its clones and in a position whose board is
\* MultiBoard::from(&PieceMap), for every square the board contains the
\* square for the piece the map holds there, for its kind and for its color,
\* and no bitboard contains a square where the map holds nothing.
C7_MapBoardAgree == \A s \in Squares : AgreeAt(pos.pieces, pos.board, s)

\* A clone of Position::default has just been made.
C7_Witness ==
    /\ last.op = "clone"
    /\ pos.pieces = PieceMap_STANDARD
    /\ pos.board.pieces[King] = {E1, E8}
    /\ pos.rights = CastleRights_FULL


\* is_legal has just been called with a move that is not a castle.
OtherAnswered == last.op = "is_legal" /\ last.arg.kind # Castle_kind

\* C11: for a move whose kind is Normal, Promotion or EnPassant, in every
\* position, is_legal ends in unimplemented!() and returns no boolean.
C11_OthersUnimplemented == OtherAnswered => ret = Unimplemented

\* is_legal has just ended in unimplemented!() for an en passant move in a
\* position where the side to move is Black.
C11_Witness ==
    /\ OtherAnswered
    /\ last.arg.kind = EnPassant
    /\ pos.player = Black
    /\ ret.panicked


\* C12: on the standard starting position king_square(White) is E1 and
\* king_square(Black) is E8, the board holds 32 pieces on the first two and
\* the last two ranks (all_bits = 0xFFFF00000000FFFF), count(Color::Black) is
\* 16, count(Piece::WhiteRook) is 2 and count(PieceKind::Queen) is 2.
C12_StandardCounts ==
    pos.board = STANDARD =>
        /\ king_square(pos, White) = E1
        /\ king_square(pos, Black) = E8
        /\ len(pos.board) = 32
        /\ all_bits(pos.board) = {s \in Squares : Square_rank(s) \in {0, 1, 6, 7}}
        /\ count(pos.board, ColorVal(Black)) = 16
        /\ count(pos.board, PieceVal(Piece_new(Rook, White))) = 2
        /\ count(pos.board, KindVal(Queen)) = 2

\* is_legal, which reads king_square, has just been called on
\* Position::default().
C12_Witness ==
    /\ pos = Position_default
    /\ pos.board = STANDARD
    /\ last.op = "is_legal"
    /\ last.arg.kind = Castle_kind


----------------------------------------------------------------------------
(* Claims about the operators of Bitboard (SpecBits) *)

BitOps == {"bitand", "bitor", "bitxor", "not", "shl", "shr"}

\* C13: every Bitboard operator (AND, OR, XOR, NOT, shift left, shift right)
\* returns a result for every operand, shift amounts of 64 or more included;
\* none ends in a panic.
C13_OperatorsTotal == last.op \in BitOps => ~ret.panicked


----------------------------------------------------------------------------
(* Claims about the functions of Square (SpecSquare) *)

\* C14: for every pair of squares (a, b), tri_index(a, b) equals
\* tri_index(b, a) and is less than 2080, the length of the table tri and
\* tri_mut read with it.
C14_TriIndex ==
    last.op = "tri_index" =>
        /\ ret.value = tri_index(last.arg[2], last.arg[1])
        /\ ret.value \in 0 .. (TRIANGLE_LEN - 1)
        /\ TRIANGLE_LEN = 2080

\* tri_index(H8, A1) has just returned what tri_index(A1, H8) returns, 63.
C14_Witness ==
    /\ last.op = "tri_index"
    /\ last.arg = <<H8, A1>>
    /\ ret.value = 63


----------------------------------------------------------------------------
(* Claims about CastleRights and CastleRight (SpecRights) *)

Letters == <<"K", "Q", "k", "q">>

LetterSet == {Letters[i] : i \in 1 .. 4}

\* The place of a letter in the order K, Q, k, q.
LetterRank(ch) == CHOOSE i \in 1 .. 4 : Letters[i] = ch

\* s lists a subset of K, Q, k, q in that order.
Listing(s) ==
    /\ \A i \in DOMAIN s : s[i] \in LetterSet
    /\ \A i \in DOMAIN s, j \in DOMAIN s : i < j => LetterRank(s[i]) < LetterRank(s[j])

\* C15, as stated: for each of the 16 rights values r, from_str of the string
\* map_str makes of r is r; and for every string that lists a subset of K, Q,
\* k, q in that order (the empty listing included) or is "-", map_str of the
\* rights parsed from it is the string.
C15_RoundTripsAnyListing ==
    /\ last.op = "parse_back" => ret.value = Ok(last.bits)
    /\ (last.op = "map_str" /\ last.pair /\ (last.arg = <<"-">> \/ Listing(last.arg)))
          => ret.value = last.arg

\* C15, amended: the same, for the strings that list at least one letter or
\* are "-"; the empty string parses to the empty set, which map_str writes
\* as "-".
C15_RoundTrips ==
    /\ last.op = "parse_back" => ret.value = Ok(last.bits)
    /\ (last.op = "map_str" /\ last.pair
            /\ (last.arg = <<"-">> \/ (Listing(last.arg) /\ Len(last.arg) > 0)))
          => ret.value = last.arg
    /\ (last.op = "map_str" /\ last.pair /\ last.arg = <<>>) => ret.value = <<"-">>

\* "Qk" has just been parsed and written back as "Qk".
C15_Witness ==
    /\ last.op = "map_str"
    /\ last.pair
    /\ last.arg = <<"Q", "k">>
    /\ ret.value = <<"Q", "k">>

\* The right a letter names.
RightOf(ch) ==
    CASE ch = "K" -> WhiteKingside
      [] ch = "Q" -> WhiteQueenside
      [] ch = "k" -> BlackKingside
      [] ch = "q" -> BlackQueenside

\* C16: from_str gives the empty set for "-", exactly the rights its letters
\* name for a string made only of K, Q, k, q, and an error without a rights
\* value for any string with another character or with "-" and another
\* character.
C16_FromStr ==
    last.op = "from_str" =>
        LET s == last.arg IN
        IF s = <<"-">>
        THEN ret.value = Ok({})
        ELSE IF \A i \in DOMAIN s : s[i] \in LetterSet
             THEN ret.value = Ok({RightOf(s[i]) : i \in DOMAIN s})
             ELSE ret.value = Err

\* from_str has just refused "-K".
C16_Witness ==
    /\ last.op = "from_str"
    /\ last.arg = <<"-", "K">>
    /\ ret.value = Err

\* C17: every CastleRights made by From<u8>, From<Color>, From<CastleRight>,
\* from_str or the named constants, and combined by | and &, has only bits
\* 0 to 3 set, and the index extract reads with is inside the 16-element
\* table.
C17_OnlyLowBits ==
    /\ HasRights => Current \subseteq 0 .. 3
    /\ last.op = "extract" => ret.value \in 0 .. 15 /\ ret.value < MAX_LEN

\* From<u8> has just been given the byte 255.
C17_Witness ==
    /\ last.op = "from_u8"
    /\ last.arg = 255
    /\ ret.value = {0, 1, 2, 3}

\* The squares strictly between two squares of one rank.
Between(a, b) ==
    {s \in Squares : Square_rank(s) = Square_rank(a) /\ Square_rank(s) = Square_rank(b)
                        /\ ((a < s /\ s < b) \/ (b < s /\ s < a))}

\* C18: path(r) is the set of squares strictly between the king's home and
\* the rook's home of r: F1, G1 for WhiteKingside, B1, C1, D1 for
\* WhiteQueenside, F8, G8 for BlackKingside, B8, C8, D8 for BlackQueenside;
\* a black path is the white path of the same side moved to rank 8.
C18_Paths ==
    last.op = "path" =>
        LET r == last.arg IN
        /\ ret.value = Between(KingHome(r), RookCorner(r))
        /\ ret.value = CASE r = WhiteKingside -> {F1, G1}
                          [] r = WhiteQueenside -> {B1, C1, D1}
                          [] r = BlackKingside -> {F8, G8}
                          [] r = BlackQueenside -> {B8, C8, D8}
        /\ CastleRight_color(r) = Black =>
              ret.value = {Square_new(Square_file(s), 7) :
                              s \in path(CastleRight_new(White, CastleRight_side(r)))}

\* path(BlackQueenside) has just returned B8, C8, D8.
C18_Witness ==
    /\ last.op = "path"
    /\ last.arg = BlackQueenside
    /\ ret.value = {B8, C8, D8}

\* C19: CastleRight::new(c, s).color() is c and .side() is s, the right is
\* the one of index (c << 1) | s in the order WhiteKingside, WhiteQueenside,
\* BlackKingside, BlackQueenside; and from_char(char::from(r)) is Some(r).
C19_NewColorSide ==
    /\ last.op = "new" =>
          LET c == last.arg[1]
              s == last.arg[2]
          IN  /\ CastleRight_color(ret.value) = c
              /\ CastleRight_side(ret.value) = s
              /\ ret.value =
                    <<WhiteKingside, WhiteQueenside, BlackKingside, BlackQueenside>>[c * 2 + s + 1]
    /\ last.op = "from_char" => ret.value = Some(last.arg)

\* CastleRight::new(Black, King) has just returned BlackKingside.
C19_Witness ==
    /\ last.op = "new"
    /\ last.arg = <<Black, CastleSide_King>>
    /\ ret.value = BlackKingside


----------------------------------------------------------------------------
(* Claims about Move (SpecMove) *)

----------------------------------------------------------------------------
(* Claims about Square and Bitboard::from (SpecSquare) *)

\* The squares of a file and of a rank, by their coordinates.
FileMembers(f) == {s \in 0 .. 63 : s % 8 = f}

RankMembers(r) == {s \in 0 .. 63 : s \div 8 = r}

\* C21: Bitboard::from(s) has exactly one member, s; Bitboard::from(f) is
\* the 8 squares of file f and Bitboard::from(r) the 8 squares of rank r, so
\* the board of s.file() intersected with the board of s.rank() is the
\* board of s.
C21_BitboardFrom ==
    /\ last.op = "from_square" =>
          /\ ~ret.panicked
          /\ ret.value = {last.arg[1]}
          /\ Cardinality(ret.value) = 1
          /\ ret.value = BitAnd(Bitboard_from_file(Square_file(last.arg[1])).value,
                                Bitboard_from_rank(Square_rank(last.arg[1])).value)
    /\ last.op = "from_file" =>
          /\ ~ret.panicked
          /\ ret.value = FileMembers(last.arg[1])
          /\ Cardinality(ret.value) = 8
    /\ last.op = "from_rank" =>
          /\ ~ret.panicked
          /\ ret.value = RankMembers(last.arg[1])
          /\ Cardinality(ret.value) = 8

\* Bitboard::from(Rank::Eight) has just returned the squares A8 to H8.
C21_Witness ==
    /\ last.op = "from_rank"
    /\ last.arg[1] = 7
    /\ ret.value = 56 .. 63

\* C22: Square::new(f, r) has index r*8 + f, its file() is f and its rank()
\* is r; Square::new(s.file(), s.rank()) is s.
C22_SquareNew ==
    /\ last.op = "new" =>
          /\ ret.value = last.arg[2] * 8 + last.arg[1]
          /\ Square_file(ret.value) = last.arg[1]
          /\ Square_rank(ret.value) = last.arg[2]
    /\ last.op = "file_rank" =>
          Square_new(ret.value[1], ret.value[2]) = last.arg[1]

\* Square::new(File::C, Rank::Six) has just returned square 42.
C22_Witness ==
    /\ last.op = "new"
    /\ last.arg = <<2, 5>>
    /\ ret.value = 42

\* What a direction returns for the square at (file, rank) moved by
\* (df, dr): nothing when that leaves the board.
Shifted(s, df, dr) ==
    LET f == (s % 8) + df
        r == (s \div 8) + dr
    IN  IF f \in 0 .. 7 /\ r \in 0 .. 7
        THEN [some |-> TRUE, v |-> r * 8 + f]
        ELSE [some |-> FALSE]

\* C23: up() is None exactly on rank 8, down() exactly on rank 1, right()
\* exactly on file H and left() exactly on file A; otherwise the result is
\* the square one rank or one file away with the other coordinate
\* unchanged, never a wrapped-around square.
C23_Directions ==
    /\ last.op = "up" => ret.value = Shifted(last.arg[1], 0, 1)
    /\ last.op = "down" => ret.value = Shifted(last.arg[1], 0, -1)
    /\ last.op = "right" => ret.value = Shifted(last.arg[1], 1, 0)
    /\ last.op = "left" => ret.value = Shifted(last.arg[1], -1, 0)

\* right() of H4 has just returned None.
C23_Witness ==
    /\ last.op = "right"
    /\ last.arg[1] = 31
    /\ ~ret.value.some


----------------------------------------------------------------------------
(* Claims about Table (SpecTable) *)

\* The powers of two a size in megabytes is rounded up to.
PowersOfTwo == {1, 2, 4, 8}

C25_ClearInBounds ==
    last.op = "clear" =>
        /\ pos.len = last.arg
        /\ prev.lo = pos.align
        /\ prev.hi = pos.align + pos.len * 64

\* C27: over any sequence of Table::new, resize and resize_exact ended by
\* the drop, every buffer from calloc is freed exactly once, none twice and
\* none leaked, and while the table is live its cluster pointer is a
\* multiple of 64 and its len clusters lie inside the current allocation of
\* len + 1 clusters.
C27_AllocationSafety ==
    /\ ~board.bad
    /\ board.state = "dropped" => board.live = {}
    /\ board.state = "live" =>
          /\ Cardinality(board.live) <= 1
          /\ pos.align % 64 = 0
          /\ pos.len > 0 =>
                \E b \in board.live :
                    /\ b.base = pos.start
                    /\ b.size = (pos.len + 1) * 64
                    /\ b.base <= pos.align
                    /\ pos.align + pos.len * 64 <= b.base + b.size


----------------------------------------------------------------------------
(* Claims about the command loop (SpecUci) *)

\* C26: once a quit line has been read the loop runs no further command:
\* no later input line in start(), no later line of the command string in
\* run(), no later item of the iterator in start_with(); and every line
\* other than quit leaves the loop running.
C26_QuitEndsLoop ==
    /\ ~pos.after
    /\ (last.op = "run_line" /\ last.arg # "quit") =>
          /\ ~ret.panicked
          /\ pos.state = "running"


----------------------------------------------------------------------------
(* Claims about the triangular index as a map (SpecSquare) *)

\* The index of every pair of squares.
TriTable == [a \in 0 .. 63 |-> [b \in 0 .. 63 |-> tri_index(a, b)]]

\* C28: tri_index is a bijection from the unordered pairs of squares onto
\* 0..2079: two pairs get the same index if and only if they are the same
\* unordered pair, and every index below 2080 is the index of some pair.
\* The second part is checked as: the index after the one just returned
\* (counting round from 2079 to 0) is the index of some pair too, which for
\* the indices of all pairs together says that none below 2080 is left out.
C28_TriBijection ==
    last.op = "tri_index" =>
        /\ \A c \in 0 .. 63, d \in 0 .. 63 :
              TriTable[c][d] = ret.value <=> {c, d} = {last.arg[1], last.arg[2]}
        /\ ret.value \in 0 .. 2079
        /\ \E c \in 0 .. 63, d \in 0 .. 63 :
              TriTable[c][d] = (ret.value + 1) % 2080

\* tri_index(H8, H8) has just returned the last index, 2079.
C28_Witness ==
    /\ last.op = "tri_index"
    /\ last.arg = <<63, 63>>
    /\ ret.value = 2079


----------------------------------------------------------------------------
(* Claims about parsing files (SpecFile) *)

\* The letters A to H and a to h.
FileLetters == (65 .. 72) \cup (97 .. 104)

\* C29: for every file f, File::from_char(char::from(f)) is Some(f), also
\* for the lower-case letter; File::from_char is None for every character
\* that is not one of the letters A to H in either case; Square::from_str
\* accepts the same eight file letters.
C29_FileFromChar ==
    /\ last.op = "round_trip" =>
          (ret.value.some /\ ret.value.v = last.arg)
    /\ last.op = "from_char" =>
          (ret.value.some <=> last.arg \in FileLetters)
    /\ (last.op = "from_str" /\ Len(last.arg) = 2 /\ last.arg[2] \in 49 .. 56) =>
          (ret.value.ok <=> last.arg[1] \in FileLetters)


----------------------------------------------------------------------------
(* Claims about MoveVec (SpecVec) *)

\* C30: two MoveVec values are equal if and only if they have the same
\* length and hold the same moves in their first len positions; the slots
\* at or beyond len never affect equality, and a MoveVec made by new() has
\* length 0 and equals every other newly made MoveVec.
C30_VecEquality ==
    /\ last.op = "eq" =>
          (ret.value <=>
              /\ pos.a.len = pos.b.len
              /\ \A i \in 1 .. pos.a.len : pos.a.buf[i] = pos.b.buf[i])
    /\ last.op \in {"init", "new"} => pos.b.len = 0

====
